---- MODULE Spec2Model ----
(***************************************************************************)
(* Input capture (low-level mouse/keyboard hooks feeding a shared          *)
(* RecordingState) and replay (ReplayState) of the IMiss macro recorder.   *)
(*                                                                         *)
(*   Spec        hook lifecycle + capture callbacks + recording control    *)
(*   CaptureSpec the callbacks against the control thread; LiveSpec adds   *)
(*               the scheduling                                            *)
(*   InstallSpec concurrent install_hooks calls                            *)
(*   ReplaySpec  the replay engine's state machine                         *)
(*   ExecSpec    capture of one notification and its execution             *)
(***************************************************************************)
EXTENDS Integers, Sequences, FiniteSets, TLC

(***************************************************************************)
(* Bounds of the model.                                                    *)
(***************************************************************************)
MaxEvents == 2
MaxTicks == 2
TickMs == 600
MaxUnhookCalls == 4
MaxDocLen == 2
MaxExtraCalls == 2
MaxVkInput == 300
MaxInstallers == 2

(***************************************************************************)
(* Native notification codes (windows_sys::Win32::UI::WindowsAndMessaging). *)
(***************************************************************************)
WM_KEYDOWN == 256
WM_KEYUP == 257
WM_MOUSEMOVE == 512
WM_LBUTTONDOWN == 513
WM_LBUTTONUP == 514
WM_RBUTTONDOWN == 516
WM_RBUTTONUP == 517
WM_MBUTTONDOWN == 519
WM_MBUTTONUP == 520
WM_MOUSEWHEEL == 522

VARIABLES
    RECORDING_STATE,  \* OnceLock<Arc<Mutex<RecordingState>>>: <<>> or <<id>>
    MOUSE_HOOK,       \* OnceLock<HHOOK>: <<>> or <<handle>>
    KEYBOARD_HOOK,    \* OnceLock<HHOOK>: <<>> or <<handle>>
    os,               \* the OS side of the hook API
    last_call,        \* what the most recent install/uninstall call returned
    installs,         \* the install_hooks calls in progress, by calling thread
    states,           \* the RecordingState objects, by id
    lock,             \* the Mutex around each RecordingState: its holder
    pc,               \* position of the mouse and of the keyboard callback
    now,              \* the monotonic clock (ms)
    passed,           \* CallNextHookEx calls made by each invocation in progress
    is_playing,       \* ReplayState
    current_events,
    current_index,
    speed_multiplier,
    load_result,      \* what the most recent load_recording call returned
    replay_ret,       \* the most recent ReplayState call and what it returned
    pulled,           \* what the get_next_event calls since the cursor was last
                      \* set to 0 returned, in call order
    exec_src,         \* the notification an executed event was captured from
    exec_event,       \* the event handed to execute_event
    exec_out          \* what execute_event returned and the OS calls it made

hookVars == <<RECORDING_STATE, MOUSE_HOOK, KEYBOARD_HOOK, os, last_call, installs>>
recVars == <<states, lock, pc, now, passed>>
replayVars == <<is_playing, current_events, current_index, speed_multiplier, load_result,
                replay_ret, pulled>>
execVars == <<exec_src, exec_event, exec_out>>
vars == <<hookVars, recVars, replayVars, execVars>>

(***************************************************************************)
(* Option<T> is a sequence of length at most one.                          *)
(***************************************************************************)
None == <<>>
Some(v) == <<v>>
IsSome(o) == o # <<>>
Unwrap(o) == o[1]

Ok == [ok |-> TRUE, err |-> ""]
Err(msg) == [ok |-> FALSE, err |-> msg]

StateIds == {1, 2}
Threads == {"mouse", "keyboard"}

(***************************************************************************)
(* The OS hook API.  SetWindowsHookExA returns 0 when the OS refuses and   *)
(* a fresh non-zero handle otherwise; UnhookWindowsHookEx removes the hook *)
(* with that handle if there is one.  os.attempts counts registration      *)
(* calls per hook kind, os.unhooked lists the handles passed to            *)
(* UnhookWindowsHookEx, in call order.                                     *)
(***************************************************************************)
SetWindowsHookExA(o, kind, accept) ==
    LET o1 == [o EXCEPT !.attempts[kind] = @ + 1]
    IN  IF accept
        THEN [os |-> [o1 EXCEPT !.hooks = @ \cup {[h |-> o.next, kind |-> kind]},
                                !.next = @ + 1],
              ret |-> o.next]
        ELSE [os |-> o1, ret |-> 0]

UnhookWindowsHookEx(o, h) ==
    [o EXCEPT !.hooks = {k \in @ : k.h # h}, !.unhooked = Append(@, h)]

Registered(kind) == \E k \in os.hooks : k.kind = kind

World == [RECORDING_STATE |-> RECORDING_STATE, MOUSE_HOOK |-> MOUSE_HOOK,
          KEYBOARD_HOOK |-> KEYBOARD_HOOK, os |-> os]

(***************************************************************************)
(* install_hooks(state): w is the World before the call; mouse_ok and      *)
(* kbd_ok say whether the OS accepts each registration.                    *)
(***************************************************************************)
register_hooks_no_rollback(w1, mouse_ok, kbd_ok) ==
    \* the keyboard failure path returns without unhooking the mouse hook
    LET m == SetWindowsHookExA(w1.os, "WH_MOUSE_LL", mouse_ok)
    IN  IF m.ret = 0
        THEN [w |-> [w1 EXCEPT !.os = m.os],
              result |-> Err("Failed to install mouse hook")]
        ELSE
        LET w2 == [w1 EXCEPT !.os = m.os, !.MOUSE_HOOK = Some(m.ret)]
            k == SetWindowsHookExA(w2.os, "WH_KEYBOARD_LL", kbd_ok)
        IN  IF k.ret = 0
            THEN [w |-> [w2 EXCEPT !.os = k.os],
                  result |-> Err("Failed to install keyboard hook")]
            ELSE [w |-> [w2 EXCEPT !.os = k.os, !.KEYBOARD_HOOK = Some(k.ret)],
                  result |-> Ok]

\* install_hooks after RECORDING_STATE.set(state) succeeded
register_hooks(w1, mouse_ok, kbd_ok) ==
    LET m == SetWindowsHookExA(w1.os, "WH_MOUSE_LL", mouse_ok)
    IN  IF m.ret = 0
        THEN [w |-> [w1 EXCEPT !.os = m.os],
              result |-> Err("Failed to install mouse hook")]
        ELSE IF IsSome(w1.MOUSE_HOOK)
        THEN [w |-> [w1 EXCEPT !.os = m.os],
              result |-> Err("Mouse hook already installed")]
        ELSE
        LET w2 == [w1 EXCEPT !.os = m.os, !.MOUSE_HOOK = Some(m.ret)]
            k == SetWindowsHookExA(w2.os, "WH_KEYBOARD_LL", kbd_ok)
        IN  IF k.ret = 0
            THEN [w |-> [w2 EXCEPT !.os = UnhookWindowsHookEx(k.os, m.ret)],
                  result |-> Err("Failed to install keyboard hook")]
            ELSE IF IsSome(w2.KEYBOARD_HOOK)
            THEN [w |-> [w2 EXCEPT !.os = k.os],
                  result |-> Err("Keyboard hook already installed")]
            ELSE [w |-> [w2 EXCEPT !.os = k.os, !.KEYBOARD_HOOK = Some(k.ret)],
                  result |-> Ok]

install_hooks_overwrite(w, state, mouse_ok, kbd_ok) ==
    \* the registered state is replaced before the call is rejected
    IF IsSome(w.RECORDING_STATE)
    THEN [w |-> [w EXCEPT !.RECORDING_STATE = Some(state)],
          result |-> Err("Failed to set recording state")]
    ELSE register_hooks([w EXCEPT !.RECORDING_STATE = Some(state)], mouse_ok, kbd_ok)

install_hooks(w, state, mouse_ok, kbd_ok) ==
    IF IsSome(w.RECORDING_STATE)
    THEN [w |-> w, result |-> Err("Failed to set recording state")]
    ELSE register_hooks([w EXCEPT !.RECORDING_STATE = Some(state)], mouse_ok, kbd_ok)

(***************************************************************************)
(* uninstall_hooks(): unhooks whatever handle each OnceLock stores; the    *)
(* OnceLocks themselves are never cleared.                                 *)
(***************************************************************************)
uninstall_hooks(w) ==
    LET o1 == IF IsSome(w.MOUSE_HOOK) /\ Unwrap(w.MOUSE_HOOK) # 0
              THEN UnhookWindowsHookEx(w.os, Unwrap(w.MOUSE_HOOK))
              ELSE w.os
        o2 == IF IsSome(w.KEYBOARD_HOOK) /\ Unwrap(w.KEYBOARD_HOOK) # 0
              THEN UnhookWindowsHookEx(o1, Unwrap(w.KEYBOARD_HOOK))
              ELSE o1
    IN  [w |-> [w EXCEPT !.os = o2], result |-> Ok]

SetWorld(w) ==
    /\ RECORDING_STATE' = w.RECORDING_STATE
    /\ MOUSE_HOOK' = w.MOUSE_HOOK
    /\ KEYBOARD_HOOK' = w.KEYBOARD_HOOK
    /\ os' = w.os

InstallWith(s, mouse_ok, kbd_ok) ==
    LET r == install_hooks(World, s, mouse_ok, kbd_ok)
    IN  /\ SetWorld(r.w)
        /\ last_call' = [op |-> "install", result |-> r.result]
        /\ UNCHANGED <<installs, recVars, replayVars, execVars>>

Install ==
    \E s \in StateIds, mouse_ok \in BOOLEAN, kbd_ok \in BOOLEAN :
        InstallWith(s, mouse_ok, kbd_ok)

Uninstall ==
    /\ Len(os.unhooked) + 2 <= MaxUnhookCalls
    /\ LET r == uninstall_hooks(World)
       IN  /\ SetWorld(r.w)
           /\ last_call' = [op |-> "uninstall", result |-> r.result]
    /\ UNCHANGED <<installs, recVars, replayVars, execVars>>

(***************************************************************************)
(* install_hooks called from several threads at once.  Each call runs the  *)
(* statements of install_hooks one at a time, interleaved with the other   *)
(* calls; a OnceLock::set and an OS call are each atomic.  installs[c] is  *)
(* the call of thread c: its position, its argument state, its locals      *)
(* mouse_hook and keyboard_hook and, once it is done, its result.          *)
(***************************************************************************)
Installers == 1..MaxInstallers

NoInstall == [pc |-> "idle", state |-> 0, mouse_hook |-> 0, keyboard_hook |-> 0,
              result |-> Ok]

once_lock_set_overwrite(cell, v) ==
    \* a set that replaces what the cell holds
    [cell |-> Some(v), ok |-> TRUE]

\* OnceLock::set(v): stores v and returns Ok if the cell is empty, else
\* leaves the cell alone and returns Err(v)
once_lock_set(cell, v) ==
    IF IsSome(cell) THEN [cell |-> cell, ok |-> FALSE] ELSE [cell |-> Some(v), ok |-> TRUE]

InstallDone(c, result) == installs' = [installs EXCEPT ![c].pc = "done", ![c].result = result]

\* a thread calls install_hooks(state)
install_hooks_call(c) ==
    /\ installs[c].pc = "idle"
    /\ \E state \in StateIds :
          installs' = [installs EXCEPT ![c] = [NoInstall EXCEPT !.pc = "set_state",
                                                               !.state = state]]
    /\ UNCHANGED <<RECORDING_STATE, MOUSE_HOOK, KEYBOARD_HOOK, os, last_call,
                   recVars, replayVars, execVars>>

\* RECORDING_STATE.set(state).map_err(..)?
install_hooks_set_state(c) ==
    /\ installs[c].pc = "set_state"
    /\ LET r == once_lock_set(RECORDING_STATE, installs[c].state)
       IN  /\ RECORDING_STATE' = r.cell
           /\ IF r.ok
              THEN installs' = [installs EXCEPT ![c].pc = "hook_mouse"]
              ELSE InstallDone(c, Err("Failed to set recording state"))
    /\ UNCHANGED <<MOUSE_HOOK, KEYBOARD_HOOK, os, last_call, recVars, replayVars, execVars>>

\* let mouse_hook = SetWindowsHookExA(WH_MOUSE_LL, ..); if mouse_hook == 0 { return Err }
install_hooks_hook_mouse(c) ==
    /\ installs[c].pc = "hook_mouse"
    /\ \E accept \in BOOLEAN :
          LET m == SetWindowsHookExA(os, "WH_MOUSE_LL", accept)
          IN  /\ os' = m.os
              /\ IF m.ret = 0
                 THEN InstallDone(c, Err("Failed to install mouse hook"))
                 ELSE installs' = [installs EXCEPT ![c].pc = "set_mouse",
                                                   ![c].mouse_hook = m.ret]
    /\ UNCHANGED <<RECORDING_STATE, MOUSE_HOOK, KEYBOARD_HOOK, last_call,
                   recVars, replayVars, execVars>>

\* MOUSE_HOOK.set(mouse_hook).map_err(..)?
install_hooks_set_mouse(c) ==
    /\ installs[c].pc = "set_mouse"
    /\ LET r == once_lock_set(MOUSE_HOOK, installs[c].mouse_hook)
       IN  /\ MOUSE_HOOK' = r.cell
           /\ IF r.ok
              THEN installs' = [installs EXCEPT ![c].pc = "hook_keyboard"]
              ELSE InstallDone(c, Err("Mouse hook already installed"))
    /\ UNCHANGED <<RECORDING_STATE, KEYBOARD_HOOK, os, last_call,
                   recVars, replayVars, execVars>>

\* let keyboard_hook = SetWindowsHookExA(WH_KEYBOARD_LL, ..);
\* if keyboard_hook == 0 { UnhookWindowsHookEx(mouse_hook); return Err }
install_hooks_hook_keyboard(c) ==
    /\ installs[c].pc = "hook_keyboard"
    /\ \E accept \in BOOLEAN :
          LET k == SetWindowsHookExA(os, "WH_KEYBOARD_LL", accept)
          IN  IF k.ret = 0
              THEN /\ os' = UnhookWindowsHookEx(k.os, installs[c].mouse_hook)
                   /\ InstallDone(c, Err("Failed to install keyboard hook"))
              ELSE /\ os' = k.os
                   /\ installs' = [installs EXCEPT ![c].pc = "set_keyboard",
                                                    ![c].keyboard_hook = k.ret]
    /\ UNCHANGED <<RECORDING_STATE, MOUSE_HOOK, KEYBOARD_HOOK, last_call,
                   recVars, replayVars, execVars>>

\* KEYBOARD_HOOK.set(keyboard_hook).map_err(..)?; Ok(())
install_hooks_set_keyboard(c) ==
    /\ installs[c].pc = "set_keyboard"
    /\ LET r == once_lock_set(KEYBOARD_HOOK, installs[c].keyboard_hook)
       IN  /\ KEYBOARD_HOOK' = r.cell
           /\ IF r.ok
              THEN InstallDone(c, Ok)
              ELSE InstallDone(c, Err("Keyboard hook already installed"))
    /\ UNCHANGED <<RECORDING_STATE, MOUSE_HOOK, os, last_call,
                   recVars, replayVars, execVars>>

\* the call returns its result to the caller
install_hooks_return(c) ==
    /\ installs[c].pc = "done"
    /\ last_call' = [op |-> "install", result |-> installs[c].result]
    /\ installs' = [installs EXCEPT ![c] = NoInstall]
    /\ UNCHANGED <<RECORDING_STATE, MOUSE_HOOK, KEYBOARD_HOOK, os,
                   recVars, replayVars, execVars>>

(***************************************************************************)
(* RecordingState (crate::recording).                                      *)
(***************************************************************************)
NewRecordingState == [is_recording |-> FALSE, start_instant |-> None, events |-> <<>>]

start_keep_events(st, t) ==
    \* the new session does not clear the previous session's events
    IF st.is_recording THEN st
    ELSE [st EXCEPT !.is_recording = TRUE, !.start_instant = Some(t)]

start_restart(st, t) ==
    \* start while recording restarts the session
    [is_recording |-> TRUE, start_instant |-> Some(t), events |-> <<>>]

start(st, t) ==
    IF st.is_recording THEN st
    ELSE [is_recording |-> TRUE, start_instant |-> Some(t), events |-> <<>>]

stop(st) == [state |-> [st EXCEPT !.is_recording = FALSE], ret |-> st.events]

add_event(st, e) ==
    IF st.is_recording THEN [st EXCEPT !.events = Append(@, e)] ELSE st

(***************************************************************************)
(* The capture callbacks.                                                  *)
(***************************************************************************)
elapsed_ms_subsec(start_instant, t) ==
    \* Duration::subsec_millis() in place of as_millis()
    (t - start_instant) % 1000

\* start.elapsed().as_millis() as u64 (the cast from u128 loses nothing for
\* any duration a process can live)
elapsed_ms(start_instant, t) == t - start_instant

\* ((l_param >> 16) & 0xFFFF) as i16 as i32
wheel_delta(l_param) ==
    LET hi == (l_param \div 65536) % 65536
    IN  IF hi >= 32768 THEN hi - 65536 ELSE hi

MouseMove == [tag |-> "MouseMove"]
MouseDown(b) == [tag |-> "MouseDown", button |-> b]
MouseUp(b) == [tag |-> "MouseUp", button |-> b]
MouseWheel(d) == [tag |-> "MouseWheel", delta |-> d]
KeyDown(vk) == [tag |-> "KeyDown", vk_code |-> vk]
KeyUp(vk) == [tag |-> "KeyUp", vk_code |-> vk]

mouse_event_type_catchall(w_param, l_param) ==
    \* an unmatched code is recorded as a move
    CASE w_param = WM_LBUTTONDOWN -> Some(MouseDown("Left"))
      [] w_param = WM_LBUTTONUP -> Some(MouseUp("Left"))
      [] w_param = WM_RBUTTONDOWN -> Some(MouseDown("Right"))
      [] w_param = WM_RBUTTONUP -> Some(MouseUp("Right"))
      [] w_param = WM_MBUTTONDOWN -> Some(MouseDown("Middle"))
      [] w_param = WM_MBUTTONUP -> Some(MouseUp("Middle"))
      [] w_param = WM_MOUSEWHEEL -> Some(MouseWheel(wheel_delta(l_param)))
      [] OTHER -> Some(MouseMove)

\* match w_param as u32 { ... } of mouse_hook_proc
mouse_event_type(w_param, l_param) ==
    CASE w_param = WM_MOUSEMOVE -> Some(MouseMove)
      [] w_param = WM_LBUTTONDOWN -> Some(MouseDown("Left"))
      [] w_param = WM_LBUTTONUP -> Some(MouseUp("Left"))
      [] w_param = WM_RBUTTONDOWN -> Some(MouseDown("Right"))
      [] w_param = WM_RBUTTONUP -> Some(MouseUp("Right"))
      [] w_param = WM_MBUTTONDOWN -> Some(MouseDown("Middle"))
      [] w_param = WM_MBUTTONUP -> Some(MouseUp("Middle"))
      [] w_param = WM_MOUSEWHEEL -> Some(MouseWheel(wheel_delta(l_param)))
      [] OTHER -> None

mouse_coords_zeroed(l_param, pt, cursor) ==
    \* a failed GetCursorPos leaves the zeroed POINT as the position
    IF l_param # 0 THEN [x |-> Some(pt[1]), y |-> Some(pt[2])]
    ELSE IF IsSome(cursor)
         THEN [x |-> Some(Unwrap(cursor)[1]), y |-> Some(Unwrap(cursor)[2])]
         ELSE [x |-> Some(0), y |-> Some(0)]

\* pt of the MSLLHOOKSTRUCT l_param points to, else GetCursorPos, else nothing
mouse_coords(l_param, pt, cursor) ==
    IF l_param # 0 THEN [x |-> Some(pt[1]), y |-> Some(pt[2])]
    ELSE IF IsSome(cursor)
         THEN [x |-> Some(Unwrap(cursor)[1]), y |-> Some(Unwrap(cursor)[2])]
         ELSE [x |-> None, y |-> None]

\* match w_param as u32 { ... } of keyboard_hook_proc
keyboard_event_type(w_param, vk_code) ==
    CASE w_param = WM_KEYDOWN -> Some(KeyDown(vk_code))
      [] w_param = WM_KEYUP -> Some(KeyUp(vk_code))
      [] OTHER -> None

(***************************************************************************)
(* What a callback does to the RecordingState st while it holds the lock,  *)
(* at clock reading t.  panic: start_instant.unwrap() on None.  early: the *)
(* keyboard callback returns from inside the locked block, through         *)
(* CallNextHookEx.  held: what the callback reads and calls outside the    *)
(* RecordingState before the guard is dropped, in order.                   *)
(***************************************************************************)
\* the number of times name occurs in the sequence held
Count(held, name) == Cardinality({k \in 1..Len(held) : held[k] = name})

Skipped(st) == [state |-> st, panic |-> FALSE, early |-> FALSE, held |-> <<>>]
Panicked(st) == [state |-> st, panic |-> TRUE, early |-> FALSE, held |-> <<>>]

\* the reads of lines 27-44 of mouse_hook_proc
mouse_held(l_param) ==
    <<"Instant::elapsed">> \o (IF l_param # 0 THEN <<"MSLLHOOKSTRUCT">> ELSE <<"GetCursorPos">>)

mouse_hook_locked_unchecked(st, i, t) ==
    \* no is_recording check, and the event is pushed onto events directly
    IF ~IsSome(st.start_instant) THEN Skipped(st)
    ELSE
    LET c == mouse_coords(i.l_param, i.pt, i.cursor)
        event_type == mouse_event_type(i.w_param, i.l_param)
    IN  [state |-> IF IsSome(event_type)
                   THEN [st EXCEPT !.events = Append(@,
                            [event_type |-> Unwrap(event_type), x |-> c.x, y |-> c.y,
                             time_offset_ms |-> elapsed_ms(Unwrap(st.start_instant), t)])]
                   ELSE st,
         panic |-> FALSE, early |-> FALSE, held |-> mouse_held(i.l_param)]

mouse_hook_locked(st, i, t) ==
    IF ~st.is_recording THEN Skipped(st)
    ELSE IF ~IsSome(st.start_instant) THEN Panicked(st)
    ELSE
    LET time_offset_ms == elapsed_ms(Unwrap(st.start_instant), t)
        c == mouse_coords(i.l_param, i.pt, i.cursor)
        event_type == mouse_event_type(i.w_param, i.l_param)
    IN  [state |-> IF IsSome(event_type)
                   THEN add_event(st, [event_type |-> Unwrap(event_type),
                                       x |-> c.x, y |-> c.y,
                                       time_offset_ms |-> time_offset_ms])
                   ELSE st,
         panic |-> FALSE, early |-> FALSE, held |-> mouse_held(i.l_param)]

keyboard_hook_locked_twice(st, i, t) ==
    \* the event is added once per match arm and once more after the match
    IF ~st.is_recording THEN Skipped(st)
    ELSE IF ~IsSome(st.start_instant) THEN Panicked(st)
    ELSE IF i.l_param = 0
    THEN [state |-> st, panic |-> FALSE, early |-> TRUE,
          held |-> <<"Instant::elapsed", "CallNextHookEx">>]
    ELSE
    LET event_type == keyboard_event_type(i.w_param, i.vkCode)
        e == [event_type |-> Unwrap(event_type), x |-> None, y |-> None,
              time_offset_ms |-> elapsed_ms(Unwrap(st.start_instant), t)]
    IN  [state |-> IF IsSome(event_type) THEN add_event(add_event(st, e), e) ELSE st,
         panic |-> FALSE, early |-> FALSE,
         held |-> <<"Instant::elapsed", "KBDLLHOOKSTRUCT">>]

keyboard_hook_locked_swallow(st, i, t) ==
    \* the early return gives back 0 without calling CallNextHookEx
    IF ~st.is_recording THEN Skipped(st)
    ELSE IF ~IsSome(st.start_instant) THEN Panicked(st)
    ELSE
    LET time_offset_ms == elapsed_ms(Unwrap(st.start_instant), t)
    IN  IF i.l_param = 0
        THEN [state |-> st, panic |-> FALSE, early |-> TRUE,
              held |-> <<"Instant::elapsed">>]
        ELSE
        LET event_type == keyboard_event_type(i.w_param, i.vkCode)
        IN  [state |-> IF IsSome(event_type)
                       THEN add_event(st, [event_type |-> Unwrap(event_type),
                                           x |-> None, y |-> None,
                                           time_offset_ms |-> time_offset_ms])
                       ELSE st,
             panic |-> FALSE, early |-> FALSE,
             held |-> <<"Instant::elapsed", "KBDLLHOOKSTRUCT">>]

keyboard_hook_locked(st, i, t) ==
    IF ~st.is_recording THEN Skipped(st)
    ELSE IF ~IsSome(st.start_instant) THEN Panicked(st)
    ELSE
    LET time_offset_ms == elapsed_ms(Unwrap(st.start_instant), t)
    IN  IF i.l_param = 0
        THEN [state |-> st, panic |-> FALSE, early |-> TRUE,
              held |-> <<"Instant::elapsed", "CallNextHookEx">>]
        ELSE
        LET event_type == keyboard_event_type(i.w_param, i.vkCode)
        IN  [state |-> IF IsSome(event_type)
                       THEN add_event(st, [event_type |-> Unwrap(event_type),
                                           x |-> None, y |-> None,
                                           time_offset_ms |-> time_offset_ms])
                       ELSE st,
             panic |-> FALSE, early |-> FALSE,
             held |-> <<"Instant::elapsed", "KBDLLHOOKSTRUCT">>]

(***************************************************************************)
(* The notifications the OS delivers in Spec.  l_param is the address of   *)
(* the payload (0: null); pt / vkCode is the payload's content; cursor is  *)
(* what GetCursorPos would answer.  523 (WM_XBUTTONDOWN) and 260           *)
(* (WM_SYSKEYDOWN) are codes neither callback matches.                     *)
(***************************************************************************)
MouseInputs ==
    { [w_param |-> WM_MOUSEMOVE, l_param |-> 7864320, pt |-> <<10, 20>>, cursor |-> None],
      [w_param |-> WM_LBUTTONDOWN, l_param |-> 0, pt |-> <<0, 0>>, cursor |-> Some(<<30, 40>>)],
      [w_param |-> 523, l_param |-> 7864320, pt |-> <<10, 20>>, cursor |-> None] }

KeyboardInputs ==
    { [w_param |-> WM_KEYDOWN, l_param |-> 7864320, vkCode |-> 65],
      [w_param |-> WM_KEYUP, l_param |-> 0, vkCode |-> 0],
      [w_param |-> 260, l_param |-> 7864320, vkCode |-> 65] }

NCodes == {-1, 0}

HookKind(t) == IF t = "mouse" THEN "WH_MOUSE_LL" ELSE "WH_KEYBOARD_LL"

(***************************************************************************)
(* Every notification the OS can hand a callback that holds the lock.      *)
(***************************************************************************)
MouseCodes == {WM_MOUSEMOVE, WM_LBUTTONDOWN, WM_LBUTTONUP, WM_RBUTTONDOWN,
               WM_RBUTTONUP, WM_MBUTTONDOWN, WM_MBUTTONUP, WM_MOUSEWHEEL}
KeyboardCodes == {WM_KEYDOWN, WM_KEYUP}

AllMouseInputs ==
    [w_param : MouseCodes \cup {523}, l_param : {0, 7864320, -7864320},
     pt : {<<10, 20>>}, cursor : {None, Some(<<30, 40>>)}]

AllKeyboardInputs ==
    [w_param : KeyboardCodes \cup {260}, l_param : {0, 7864320}, vkCode : {65, 300}]

\* the OS invokes the callback; n_code >= 0 and RECORDING_STATE.get()
hook_proc_enter(t) ==
    /\ pc[t] = "idle"
    /\ Registered(HookKind(t))
    /\ \E n_code \in NCodes :
          pc' = [pc EXCEPT ![t] = IF n_code >= 0 /\ IsSome(RECORDING_STATE)
                                  THEN "lock" ELSE "next"]
    /\ UNCHANGED <<hookVars, states, lock, now, passed, replayVars, execVars>>

hook_proc_lock_unwrap(t) ==
    \* state.lock().unwrap(): a poisoned Mutex panics the callback
    /\ pc[t] = "lock"
    /\ IF lock[Unwrap(RECORDING_STATE)] = "poisoned"
       THEN /\ pc' = [pc EXCEPT ![t] = "panicked"]
            /\ UNCHANGED lock
       ELSE /\ lock[Unwrap(RECORDING_STATE)] = "free"
            /\ lock' = [lock EXCEPT ![Unwrap(RECORDING_STATE)] = t]
            /\ pc' = [pc EXCEPT ![t] = "locked"]
    /\ UNCHANGED <<hookVars, states, now, passed, replayVars, execVars>>

\* state.lock(): Err at once if the Mutex is poisoned, else the guard once
\* the Mutex is free
hook_proc_lock(t) ==
    /\ pc[t] = "lock"
    /\ IF lock[Unwrap(RECORDING_STATE)] = "poisoned"
       THEN /\ pc' = [pc EXCEPT ![t] = "next"]
            /\ UNCHANGED lock
       ELSE /\ lock[Unwrap(RECORDING_STATE)] = "free"
            /\ lock' = [lock EXCEPT ![Unwrap(RECORDING_STATE)] = t]
            /\ pc' = [pc EXCEPT ![t] = "locked"]
    /\ UNCHANGED <<hookVars, states, now, passed, replayVars, execVars>>

hook_proc_locked_leak(t, r) ==
    \* the early return leaves without dropping the guard
    LET s == Unwrap(RECORDING_STATE)
    IN  /\ Len(r.state.events) <= MaxEvents
        /\ states' = [states EXCEPT ![s] = r.state]
        /\ lock' = [lock EXCEPT ![s] = IF r.panic THEN "poisoned"
                                       ELSE IF r.early THEN t ELSE "free"]
        /\ pc' = [pc EXCEPT ![t] = IF r.panic THEN "panicked"
                                   ELSE IF r.early THEN "return" ELSE "next"]
        /\ passed' = [passed EXCEPT ![t] = @ + Count(r.held, "CallNextHookEx")]
        /\ UNCHANGED <<hookVars, now, replayVars, execVars>>

\* the locked block, to the release of the guard
hook_proc_locked(t, r) ==
    LET s == Unwrap(RECORDING_STATE)
    IN  /\ Len(r.state.events) <= MaxEvents
        /\ states' = [states EXCEPT ![s] = r.state]
        /\ lock' = [lock EXCEPT ![s] = IF r.panic THEN "poisoned" ELSE "free"]
        /\ pc' = [pc EXCEPT ![t] = IF r.panic THEN "panicked"
                                   ELSE IF r.early THEN "return" ELSE "next"]
        /\ passed' = [passed EXCEPT ![t] = @ + Count(r.held, "CallNextHookEx")]
        /\ UNCHANGED <<hookVars, now, replayVars, execVars>>

mouse_hook_proc_locked ==
    /\ pc["mouse"] = "locked"
    /\ \E i \in MouseInputs :
          hook_proc_locked("mouse",
              mouse_hook_locked(states[Unwrap(RECORDING_STATE)], i, now))

keyboard_hook_proc_locked ==
    /\ pc["keyboard"] = "locked"
    /\ \E i \in KeyboardInputs :
          hook_proc_locked("keyboard",
              keyboard_hook_locked(states[Unwrap(RECORDING_STATE)], i, now))

\* the CallNextHookEx that ends the function
hook_proc_next(t) ==
    /\ pc[t] = "next"
    /\ pc' = [pc EXCEPT ![t] = "return"]
    /\ passed' = [passed EXCEPT ![t] = @ + 1]
    /\ UNCHANGED <<hookVars, states, lock, now, replayVars, execVars>>

\* the callback returns to the OS
hook_proc_return(t) ==
    /\ pc[t] = "return"
    /\ pc' = [pc EXCEPT ![t] = "idle"]
    /\ passed' = [passed EXCEPT ![t] = 0]
    /\ UNCHANGED <<hookVars, states, lock, now, replayVars, execVars>>

(***************************************************************************)
(* The control thread: start_recording / stop_recording lock the          *)
(* application's RecordingState, make the transition and release the lock. *)
(* The application starts and stops AppState; install_hooks may be handed  *)
(* any state of StateIds.                                                  *)
(***************************************************************************)
AppState == CHOOSE s \in StateIds : \A o \in StateIds : s <= o

StartRecording ==
    /\ lock[AppState] = "free"
    /\ states' = [states EXCEPT ![AppState] = start(@, now)]
    /\ UNCHANGED <<hookVars, lock, pc, now, passed, replayVars, execVars>>

StopRecording ==
    /\ lock[AppState] = "free"
    /\ states' = [states EXCEPT ![AppState] = stop(@).state]
    /\ UNCHANGED <<hookVars, lock, pc, now, passed, replayVars, execVars>>

\* the control thread panics while it holds the lock: the Mutex is poisoned
ControlPanic ==
    /\ lock[AppState] = "free"
    /\ lock' = [lock EXCEPT ![AppState] = "poisoned"]
    /\ UNCHANGED <<hookVars, states, pc, now, passed, replayVars, execVars>>

Tick ==
    /\ now + TickMs <= MaxTicks * TickMs
    /\ now' = now + TickMs
    /\ UNCHANGED <<hookVars, states, lock, pc, passed, replayVars, execVars>>

HookInit ==
    /\ RECORDING_STATE = None
    /\ MOUSE_HOOK = None
    /\ KEYBOARD_HOOK = None
    /\ os = [hooks |-> {}, next |-> 1, unhooked |-> <<>>,
             attempts |-> [k \in {"WH_MOUSE_LL", "WH_KEYBOARD_LL"} |-> 0]]
    /\ last_call = [op |-> "none", result |-> Ok]
    /\ installs = [c \in Installers |-> NoInstall]

RecInit ==
    /\ states = [s \in StateIds |-> NewRecordingState]
    /\ lock = [s \in StateIds |-> "free"]
    /\ pc = [t \in Threads |-> "idle"]
    /\ now = 0
    /\ passed = [t \in Threads |-> 0]

ReplayInit ==
    /\ is_playing = FALSE
    /\ current_events = <<>>
    /\ current_index = 0
    /\ speed_multiplier = 10
    /\ load_result = Ok
    /\ replay_ret = [op |-> "new", val |-> None]
    /\ pulled = <<>>

\* no execute_event call is in progress
ExecIdle ==
    /\ exec_src = [kind |-> "none"]
    /\ exec_event = None
    /\ exec_out = None

Init == HookInit /\ RecInit /\ ReplayInit /\ ExecIdle

Next ==
    \/ Install
    \/ Uninstall
    \/ \E t \in Threads : hook_proc_enter(t)
    \/ \E t \in Threads : hook_proc_lock(t)
    \/ mouse_hook_proc_locked
    \/ keyboard_hook_proc_locked
    \/ \E t \in Threads : hook_proc_next(t)
    \/ \E t \in Threads : hook_proc_return(t)
    \/ StartRecording
    \/ StopRecording
    \/ Tick

Spec == Init /\ [][Next]_vars

(***************************************************************************)
(* CaptureSpec: the callbacks against the control thread, which also may   *)
(* panic with the lock held.  The clock stands still and no hook is        *)
(* removed.  LiveSpec adds the scheduling: a callback that can step does   *)
(* step, and a callback waiting for a Mutex that is released again and     *)
(* again gets it.                                                          *)
(***************************************************************************)
CaptureNext ==
    \/ Install
    \/ \E t \in Threads : hook_proc_enter(t)
    \/ \E t \in Threads : hook_proc_lock(t)
    \/ mouse_hook_proc_locked
    \/ keyboard_hook_proc_locked
    \/ \E t \in Threads : hook_proc_next(t)
    \/ \E t \in Threads : hook_proc_return(t)
    \/ StartRecording
    \/ StopRecording
    \/ ControlPanic

CaptureSpec == Init /\ [][CaptureNext]_vars

LiveSpec ==
    /\ Init /\ [][CaptureNext]_vars
    /\ \A t \in Threads : SF_vars(hook_proc_lock(t))
    /\ WF_vars(mouse_hook_proc_locked)
    /\ WF_vars(keyboard_hook_proc_locked)
    /\ \A t \in Threads : WF_vars(hook_proc_next(t))
    /\ \A t \in Threads : WF_vars(hook_proc_return(t))

(***************************************************************************)
(* InstallSpec: install_hooks calls racing each other, and uninstall_hooks. *)
(***************************************************************************)
InstallNext ==
    \/ \E c \in Installers : install_hooks_call(c)
    \/ \E c \in Installers : install_hooks_set_state(c)
    \/ \E c \in Installers : install_hooks_hook_mouse(c)
    \/ \E c \in Installers : install_hooks_set_mouse(c)
    \/ \E c \in Installers : install_hooks_hook_keyboard(c)
    \/ \E c \in Installers : install_hooks_set_keyboard(c)
    \/ \E c \in Installers : install_hooks_return(c)
    \/ Uninstall

InstallSpec == Init /\ [][InstallNext]_vars

(***************************************************************************)
(* Replay engine (replay.rs).  A file is unreadable, or holds text that    *)
(* serde_json parses into a Value or rejects.  A Value is a record with a  *)
(* type and, by type, fields (object), items (array), n (number), s        *)
(* (string) or v (an encoded EventType variant).                           *)
(***************************************************************************)
JNull == [type |-> "null"]
JNum(n) == [type |-> "number", n |-> n]
JStr(s) == [type |-> "string", s |-> s]
JVariant(v) == [type |-> "variant", v |-> v]
JArray(items) == [type |-> "array", items |-> items]
JObject(fields) == [type |-> "object", fields |-> fields]

\* json["events"]: Value::Null unless json is an object that has the key
JsonIndex(json, key) ==
    IF json.type = "object" /\ key \in DOMAIN json.fields
    THEN json.fields[key] ELSE JNull

\* Value::as_array
as_array(v) == IF v.type = "array" THEN Some(v.items) ELSE None

\* an Option<i32> field of a JSON object: absent and null both decode to None
JsonOptInt(v, key) ==
    LET f == JsonIndex(v, key)
    IN  IF f.type = "null" THEN [ok |-> TRUE, val |-> None]
        ELSE IF f.type = "number" THEN [ok |-> TRUE, val |-> Some(f.n)]
        ELSE [ok |-> FALSE, val |-> None]

\* serde_json::from_value::<RecordedEvent>
from_value(v) ==
    LET et == JsonIndex(v, "event_type")
        t == JsonIndex(v, "time_offset_ms")
        x == JsonOptInt(v, "x")
        y == JsonOptInt(v, "y")
    IN  IF /\ v.type = "object"
           /\ et.type = "variant"
           /\ t.type = "number" /\ t.n >= 0
           /\ x.ok /\ y.ok
        THEN [ok |-> TRUE,
              val |-> [event_type |-> et.v, x |-> x.val, y |-> y.val,
                       time_offset_ms |-> t.n]]
        ELSE [ok |-> FALSE, val |-> None]

RECURSIVE CollectEvents(_)
\* .iter().map(from_value).collect::<Result<Vec<_>, _>>()
CollectEvents(items) ==
    IF items = <<>> THEN [ok |-> TRUE, val |-> <<>>]
    ELSE LET h == from_value(Head(items))
         IN  IF ~h.ok THEN [ok |-> FALSE, val |-> <<>>]
             ELSE LET r == CollectEvents(Tail(items))
                  IN  IF r.ok THEN [ok |-> TRUE, val |-> <<h.val>> \o r.val]
                      ELSE r

RECURSIVE DecodedPrefix(_)
DecodedPrefix(items) ==
    IF items = <<>> THEN <<>>
    ELSE LET h == from_value(Head(items))
         IN  IF h.ok THEN <<h.val>> \o DecodedPrefix(Tail(items)) ELSE <<>>

ReplayState == [is_playing |-> is_playing, current_events |-> current_events,
                current_index |-> current_index, speed_multiplier |-> speed_multiplier]

load_recording_partial(rs, file) ==
    \* the elements are pushed onto current_events one by one as they decode
    IF file.kind = "unreadable"
    THEN [state |-> rs, result |-> Err("Failed to read file")]
    ELSE IF ~IsSome(file.json)
    THEN [state |-> rs, result |-> Err("Failed to parse JSON")]
    ELSE
    LET arr == as_array(JsonIndex(Unwrap(file.json), "events"))
    IN  IF ~IsSome(arr)
        THEN [state |-> rs,
              result |-> Err("Missing or invalid 'events' field in recording file")]
        ELSE
        LET evs == CollectEvents(Unwrap(arr))
        IN  IF ~evs.ok
            THEN [state |-> [rs EXCEPT !.current_events = DecodedPrefix(Unwrap(arr))],
                  result |-> Err("Failed to parse events")]
            ELSE [state |-> [rs EXCEPT !.current_events = evs.val, !.current_index = 0],
                  result |-> Ok]

load_recording_keep_cursor(rs, file) ==
    \* the new events are stored but the cursor stays where it was
    IF file.kind = "unreadable"
    THEN [state |-> rs, result |-> Err("Failed to read file")]
    ELSE IF ~IsSome(file.json)
    THEN [state |-> rs, result |-> Err("Failed to parse JSON")]
    ELSE
    LET arr == as_array(JsonIndex(Unwrap(file.json), "events"))
    IN  IF ~IsSome(arr)
        THEN [state |-> rs,
              result |-> Err("Missing or invalid 'events' field in recording file")]
        ELSE
        LET evs == CollectEvents(Unwrap(arr))
        IN  IF ~evs.ok
            THEN [state |-> rs, result |-> Err("Failed to parse events")]
            ELSE [state |-> [rs EXCEPT !.current_events = evs.val], result |-> Ok]

load_recording(rs, file) ==
    IF file.kind = "unreadable"
    THEN [state |-> rs, result |-> Err("Failed to read file")]
    ELSE IF ~IsSome(file.json)
    THEN [state |-> rs, result |-> Err("Failed to parse JSON")]
    ELSE
    LET arr == as_array(JsonIndex(Unwrap(file.json), "events"))
    IN  IF ~IsSome(arr)
        THEN [state |-> rs,
              result |-> Err("Missing or invalid 'events' field in recording file")]
        ELSE
        LET evs == CollectEvents(Unwrap(arr))
        IN  IF ~evs.ok
            THEN [state |-> rs, result |-> Err("Failed to parse events")]
            ELSE [state |-> [rs EXCEPT !.current_events = evs.val, !.current_index = 0],
                  result |-> Ok]

replay_start(rs, speed) ==
    [rs EXCEPT !.is_playing = TRUE, !.current_index = 0, !.speed_multiplier = speed]

replay_stop_keep_cursor(rs) == [rs EXCEPT !.is_playing = FALSE]

replay_stop(rs) == [rs EXCEPT !.is_playing = FALSE, !.current_index = 0]

get_next_event_preincrement(rs) ==
    \* the cursor is advanced before the element is read
    IF rs.current_index < Len(rs.current_events)
    THEN [state |-> [rs EXCEPT !.current_index = @ + 1],
          ret |-> IF rs.current_index + 2 <= Len(rs.current_events)
                  THEN Some(rs.current_events[rs.current_index + 2])
                  ELSE None]
    ELSE [state |-> rs, ret |-> None]

get_next_event_unbounded(rs) ==
    \* the cursor advances on every call, also past the end
    [state |-> [rs EXCEPT !.current_index = @ + 1],
     ret |-> IF rs.current_index < Len(rs.current_events)
             THEN Some(rs.current_events[rs.current_index + 1])
             ELSE None]

get_next_event_autostop(rs) ==
    \* handing out the last event ends playback
    IF rs.current_index < Len(rs.current_events)
    THEN [state |-> [rs EXCEPT !.current_index = @ + 1,
                               !.is_playing = @ /\ rs.current_index + 1 < Len(rs.current_events)],
          ret |-> Some(rs.current_events[rs.current_index + 1])]
    ELSE [state |-> rs, ret |-> None]

get_next_event(rs) ==
    IF rs.current_index < Len(rs.current_events)
    THEN [state |-> [rs EXCEPT !.current_index = @ + 1],
          ret |-> Some(rs.current_events[rs.current_index + 1])]
    ELSE [state |-> rs, ret |-> None]

(***************************************************************************)
(* get_progress computes in f32; the model computes the same expression    *)
(* exactly, on fractions [num, den] in lowest terms.                       *)
(***************************************************************************)
RECURSIVE Gcd(_, _)
Gcd(a, b) == IF b = 0 THEN a ELSE Gcd(b, a % b)

Frac(n, d) == LET g == Gcd(n, d) IN [num |-> n \div g, den |-> d \div g]
FracDiv(a, b) == Frac(a, b)
FracTimes(f, k) == Frac(f.num * k, f.den)

get_progress_fraction(rs) ==
    \* a fraction of 1 rather than a percentage
    IF rs.current_events = <<>> THEN Frac(0, 1)
    ELSE FracDiv(rs.current_index, Len(rs.current_events))

get_progress(rs) ==
    IF rs.current_events = <<>> THEN Frac(0, 1)
    ELSE FracTimes(FracDiv(rs.current_index, Len(rs.current_events)), 100)

(***************************************************************************)
(* execute_event (the Windows build).  It makes at most one OS call;       *)
(* os_ret is what the OS answers to it: 0 is SetCursorPos's FALSE and      *)
(* SendInput's "no event inserted".  The result carries the calls made,    *)
(* each with its arguments and the answer it got.  Error messages are      *)
(* kept without their formatted arguments.                                 *)
(***************************************************************************)
MOUSEEVENTF_LEFTDOWN == 2
MOUSEEVENTF_LEFTUP == 4
MOUSEEVENTF_RIGHTDOWN == 8
MOUSEEVENTF_RIGHTUP == 16
MOUSEEVENTF_MIDDLEDOWN == 32
MOUSEEVENTF_MIDDLEUP == 64
MOUSEEVENTF_WHEEL == 2048
KEYEVENTF_KEYUP == 2

COORD_MIN == -32768
COORD_MAX == 32767
VK_MAX == 255

SetCursorPos(x, y, os_ret) == [api |-> "SetCursorPos", x |-> x, y |-> y, ret |-> os_ret]

\* mouseData is a u32, kept as its two 16-bit halves
SendMouseInput(flags, mouseData, os_ret) ==
    [api |-> "SendInput", type |-> "INPUT_MOUSE", dx |-> 0, dy |-> 0,
     mouseData |-> mouseData, dwFlags |-> flags, ret |-> os_ret]

SendKeyboardInput(wVk, flags, os_ret) ==
    [api |-> "SendInput", type |-> "INPUT_KEYBOARD", wVk |-> wVk, wScan |-> 0,
     dwFlags |-> flags, ret |-> os_ret]

\* the call was made: Err(msg) if the OS answered 0
AfterCall(call, msg) ==
    [result |-> IF call.ret = 0 THEN Err(msg) ELSE Ok, calls |-> <<call>>]

execute_mouse_move_exclusive(event, os_ret) ==
    \* the two ends of the range are rejected too
    IF IsSome(event.x) /\ IsSome(event.y)
    THEN LET x == Unwrap(event.x)
             y == Unwrap(event.y)
         IN  IF x <= COORD_MIN \/ x >= COORD_MAX \/ y <= COORD_MIN \/ y >= COORD_MAX
             THEN [result |-> Err("Invalid mouse coordinates"), calls |-> <<>>]
             ELSE AfterCall(SetCursorPos(x, y, os_ret), "Failed to move cursor")
    ELSE [result |-> Ok, calls |-> <<>>]

execute_mouse_move(event, os_ret) ==
    IF IsSome(event.x) /\ IsSome(event.y)
    THEN LET x == Unwrap(event.x)
             y == Unwrap(event.y)
         IN  IF x < COORD_MIN \/ x > COORD_MAX \/ y < COORD_MIN \/ y > COORD_MAX
             THEN [result |-> Err("Invalid mouse coordinates"), calls |-> <<>>]
             ELSE AfterCall(SetCursorPos(x, y, os_ret), "Failed to move cursor")
    ELSE [result |-> Ok, calls |-> <<>>]

button_down_flags(button) ==
    CASE button = "Left" -> MOUSEEVENTF_LEFTDOWN
      [] button = "Right" -> MOUSEEVENTF_RIGHTDOWN
      [] button = "Middle" -> MOUSEEVENTF_MIDDLEDOWN

button_up_flags_swapped(button) ==
    \* the right and the middle button change places
    CASE button = "Left" -> MOUSEEVENTF_LEFTUP
      [] button = "Right" -> MOUSEEVENTF_MIDDLEUP
      [] button = "Middle" -> MOUSEEVENTF_RIGHTUP

button_up_flags(button) ==
    CASE button = "Left" -> MOUSEEVENTF_LEFTUP
      [] button = "Right" -> MOUSEEVENTF_RIGHTUP
      [] button = "Middle" -> MOUSEEVENTF_MIDDLEUP

NoMouseData == [hi |-> 0, lo |-> 0]

wheel_mouse_data_unshifted(delta) ==
    \* delta as u32 without the shift: delta lands in the low half
    [hi |-> (delta \div 65536) % 65536, lo |-> delta % 65536]

\* (*delta as u32) << 16: the low 16 bits of delta become the high half
wheel_mouse_data(delta) == [hi |-> delta % 65536, lo |-> 0]

execute_key_off_by_one(vk_code, flags, os_ret, msg) ==
    \* 256 passes the range check
    IF vk_code > VK_MAX + 1
    THEN [result |-> Err("Invalid virtual key code"), calls |-> <<>>]
    ELSE AfterCall(SendKeyboardInput(vk_code % 65536, flags, os_ret), msg)

\* the KeyDown and KeyUp arms; wVk is vk_code as u16
execute_key(vk_code, flags, os_ret, msg) ==
    IF vk_code > VK_MAX
    THEN [result |-> Err("Invalid virtual key code"), calls |-> <<>>]
    ELSE AfterCall(SendKeyboardInput(vk_code % 65536, flags, os_ret), msg)

execute_event(event, os_ret) ==
    LET et == event.event_type
    IN  CASE et.tag = "MouseMove" -> execute_mouse_move(event, os_ret)
          [] et.tag = "MouseDown" ->
                AfterCall(SendMouseInput(button_down_flags(et.button), NoMouseData, os_ret),
                          "Failed to send mouse down event")
          [] et.tag = "MouseUp" ->
                AfterCall(SendMouseInput(button_up_flags(et.button), NoMouseData, os_ret),
                          "Failed to send mouse up event")
          [] et.tag = "MouseWheel" ->
                AfterCall(SendMouseInput(MOUSEEVENTF_WHEEL, wheel_mouse_data(et.delta),
                                         os_ret),
                          "Failed to send mouse wheel event")
          [] et.tag = "KeyDown" ->
                execute_key(et.vk_code, 0, os_ret, "Failed to send key down event")
          [] et.tag = "KeyUp" ->
                execute_key(et.vk_code, KEYEVENTF_KEYUP, os_ret,
                            "Failed to send key up event")

(***************************************************************************)
(* The files and speeds ReplaySpec offers.  Speeds are in tenths (10 is    *)
(* the 1.0 of ReplayState::new).                                           *)
(***************************************************************************)
JsonElements ==
    { JObject([event_type |-> JVariant(MouseMove), x |-> JNum(10), y |-> JNum(20),
               time_offset_ms |-> JNum(0)]),
      JObject([event_type |-> JVariant(KeyDown(65)), x |-> JNull,
               time_offset_ms |-> JNum(50)]),
      JObject([event_type |-> JVariant(MouseUp("Left")), x |-> JNum(10), y |-> JNum(20)]),
      JObject([event_type |-> JStr("Bogus"), x |-> JNull, y |-> JNull,
               time_offset_ms |-> JNum(70)]) }

RECURSIVE SeqsUpTo(_, _)
SeqsUpTo(S, n) ==
    IF n = 0 THEN {<<>>}
    ELSE LET shorter == SeqsUpTo(S, n - 1)
         IN  shorter \cup {Append(q, e) : q \in shorter, e \in S}

Files ==
    { [kind |-> "unreadable", json |-> None],
      [kind |-> "text", json |-> None],
      [kind |-> "text", json |-> Some(JNum(7))],
      [kind |-> "text", json |-> Some(JObject([duration_ms |-> JNum(120)]))],
      [kind |-> "text", json |-> Some(JObject([events |-> JStr("none"),
                                                duration_ms |-> JNum(120)]))] }
    \cup { [kind |-> "text",
            json |-> Some(JObject([events |-> JArray(items), duration_ms |-> JNum(120)]))] :
           items \in SeqsUpTo(JsonElements, MaxDocLen) }

Speeds == {-10, 0, 5, 20}

SetReplayState(rs) ==
    /\ is_playing' = rs.is_playing
    /\ current_events' = rs.current_events
    /\ current_index' = rs.current_index
    /\ speed_multiplier' = rs.speed_multiplier

LoadWith(file) ==
    LET r == load_recording(ReplayState, file)
    IN  /\ SetReplayState(r.state)
        /\ load_result' = r.result
        /\ replay_ret' = [op |-> "load_recording", val |-> r.result]
        /\ pulled' = IF r.result.ok THEN <<>> ELSE pulled
        /\ UNCHANGED <<hookVars, recVars, execVars>>

LoadRecording == \E file \in Files : LoadWith(file)

StartWith(speed) ==
    /\ SetReplayState(replay_start(ReplayState, speed))
    /\ replay_ret' = [op |-> "start", val |-> None]
    /\ pulled' = <<>>
    /\ UNCHANGED <<load_result, hookVars, recVars, execVars>>

ReplayStart == \E speed \in Speeds : StartWith(speed)

ReplayStop ==
    /\ SetReplayState(replay_stop(ReplayState))
    /\ replay_ret' = [op |-> "stop", val |-> None]
    /\ pulled' = <<>>
    /\ UNCHANGED <<load_result, hookVars, recVars, execVars>>

GetNextEvent ==
    /\ Len(pulled) < Len(current_events) + MaxExtraCalls
    /\ LET r == get_next_event(ReplayState)
       IN  /\ SetReplayState(r.state)
           /\ replay_ret' = [op |-> "get_next_event", val |-> r.ret]
           /\ pulled' = Append(pulled, r.ret)
    /\ UNCHANGED <<load_result, hookVars, recVars, execVars>>

GetProgress ==
    /\ replay_ret' = [op |-> "get_progress", val |-> get_progress(ReplayState)]
    /\ UNCHANGED <<is_playing, current_events, current_index, speed_multiplier,
                   load_result, pulled, hookVars, recVars, execVars>>

ReplayNext ==
    \/ LoadRecording
    \/ ReplayStart
    \/ ReplayStop
    \/ GetNextEvent
    \/ GetProgress

ReplaySpec == Init /\ [][ReplayNext]_vars

(***************************************************************************)
(* ExecSpec: execute_event applied to one event.  The event is either      *)
(* given (as a loaded recording can hold any decodable event) or is what a *)
(* capture callback records for a notification.  The OS delivers virtual   *)
(* key codes of at most VK_MAX to the keyboard callback.                   *)
(***************************************************************************)
Coordinates == {None, Some(COORD_MIN - 1), Some(COORD_MIN), Some(0), Some(COORD_MAX),
                Some(COORD_MAX + 1), Some(40000)}
Buttons == {"Left", "Right", "Middle"}
Deltas == {-32768, -120, 0, 120, 32767, 70000}

ExecEvents ==
    [event_type : {MouseMove}, x : Coordinates, y : Coordinates, time_offset_ms : {0}]
    \cup [event_type : {MouseDown(b) : b \in Buttons} \cup {MouseUp(b) : b \in Buttons}
                       \cup {MouseWheel(d) : d \in Deltas},
          x : {Some(10)}, y : {Some(20)}, time_offset_ms : {0}]
    \cup [event_type : {KeyDown(vk) : vk \in 0..MaxVkInput}
                       \cup {KeyUp(vk) : vk \in 0..MaxVkInput},
          x : {None}, y : {None}, time_offset_ms : {0}]

\* l_param values whose bits 16..31 are 0x7FFF, 0x8000, 0xFFFF and 0
WheelLParams == {32767 * 65536, (-32768) * 65536, -65536, 65535}

ExecSources ==
    [kind : {"mouse"}, inp : AllMouseInputs]
    \cup [kind : {"mouse"},
          inp : [w_param : {WM_MOUSEWHEEL}, l_param : WheelLParams,
                 pt : {<<10, 20>>}, cursor : {None}]]
    \cup [kind : {"keyboard"},
          inp : [w_param : KeyboardCodes \cup {260}, l_param : {0, 7864320},
                 vkCode : 0..VK_MAX]]

\* a RecordingState that is recording, started at clock reading 0
CaptureProbe == [is_recording |-> TRUE, start_instant |-> Some(0), events |-> <<>>]

\* the event the callback records for the notification src, if it records one
captured(src) ==
    LET r == IF src.kind = "mouse" THEN mouse_hook_locked(CaptureProbe, src.inp, 0)
             ELSE keyboard_hook_locked(CaptureProbe, src.inp, 0)
    IN  IF r.state.events = <<>> THEN None ELSE Some(r.state.events[1])

ExecInit ==
    /\ HookInit /\ RecInit /\ ReplayInit
    /\ exec_out = None
    /\ \/ exec_src = [kind |-> "none"] /\ exec_event \in {Some(e) : e \in ExecEvents}
       \/ exec_src \in ExecSources /\ exec_event = None

Capture ==
    /\ exec_src.kind # "none"
    /\ exec_event = None
    /\ IsSome(captured(exec_src))
    /\ exec_event' = captured(exec_src)
    /\ UNCHANGED <<exec_src, exec_out, hookVars, recVars, replayVars>>

OsAnswers == {0, 1}

ExecuteEvent ==
    /\ IsSome(exec_event)
    /\ exec_out = None
    /\ \E os_ret \in OsAnswers :
           exec_out' = Some(execute_event(Unwrap(exec_event), os_ret))
    /\ UNCHANGED <<exec_src, exec_event, hookVars, recVars, replayVars>>

ExecNext ==
    \/ Capture
    \/ ExecuteEvent

ExecSpec == ExecInit /\ [][ExecNext]_vars

(***************************************************************************)
(* Properties.                                                             *)
(***************************************************************************)
MouseRegistered == Registered("WH_MOUSE_LL")
KeyboardRegistered == Registered("WH_KEYBOARD_LL")

NoDuplicates(q) == \A i, j \in 1..Len(q) : q[i] = q[j] => i = j

IsPrefix(p, q) == Len(p) <= Len(q) /\ SubSeq(q, 1, Len(p)) = p

NonDecreasing(evs) ==
    \A i, j \in 1..Len(evs) : i <= j => evs[i].time_offset_ms <= evs[j].time_offset_ms

\* C1: hook installation is all-or-nothing.  Whenever install_hooks returns,
\* the mouse and the keyboard hook are both registered with the OS or neither
\* is; a successful return leaves both registered; an error returned by a
\* call that attempted a registration leaves neither registered: when the OS
\* refuses the keyboard hook the mouse hook has been passed to
\* UnhookWindowsHookEx before the error is returned, and when the OS refuses
\* the mouse hook no keyboard registration is attempted.
C1_InstallAllOrNothing ==
    [][Install =>
        /\ MouseRegistered' <=> KeyboardRegistered'
        /\ last_call'.result.ok => MouseRegistered' /\ KeyboardRegistered'
        /\ (~last_call'.result.ok /\ os'.attempts # os.attempts) => os'.hooks = {}
        /\ last_call'.result.err = "Failed to install keyboard hook" =>
              /\ IsSome(MOUSE_HOOK')
              /\ os'.unhooked = Append(os.unhooked, Unwrap(MOUSE_HOOK'))
        /\ last_call'.result.err = "Failed to install mouse hook" =>
              os'.attempts["WH_KEYBOARD_LL"] = os.attempts["WH_KEYBOARD_LL"]
      ]_vars

\* the OS accepted the mouse hook and refused the keyboard hook
C1_Witness ==
    /\ last_call.op = "install"
    /\ last_call.result.err = "Failed to install keyboard hook"
    /\ os.attempts["WH_MOUSE_LL"] = 1 /\ os.attempts["WH_KEYBOARD_LL"] = 1
    /\ os.hooks = {}
    /\ os.unhooked = MOUSE_HOOK

\* C2: install_hooks called while the hooks of an earlier successful install
\* are still installed returns an error and changes nothing: no OS call is
\* made, the registered hooks, the stored handles and the registered
\* RecordingState stay as they were (so the callbacks keep using the state of
\* the first install).
C2_SecondInstallRejected ==
    [][(Install /\ MouseRegistered /\ KeyboardRegistered) =>
        /\ last_call'.result = Err("Failed to set recording state")
        /\ os' = os
        /\ RECORDING_STATE' = RECORDING_STATE
        /\ MOUSE_HOOK' = MOUSE_HOOK
        /\ KEYBOARD_HOOK' = KEYBOARD_HOOK
        /\ UNCHANGED recVars
      ]_vars

\* a rejected install, with both hooks in place and the callbacks having
\* appended to the state the first install registered
C2_Witness ==
    /\ last_call = [op |-> "install", result |-> Err("Failed to set recording state")]
    /\ MouseRegistered /\ KeyboardRegistered
    /\ states[Unwrap(RECORDING_STATE)].events # <<>>

\* C3: install is rejected only while a hook is active: an install call made
\* while no hook is registered (after uninstall, or after a failed install)
\* and for which the OS accepts both hooks succeeds and leaves both hooks
\* installed.
C3_ReinstallSucceeds ==
    [][\A s \in StateIds :
        (InstallWith(s, TRUE, TRUE) /\ os.hooks = {}) =>
            /\ last_call'.result.ok
            /\ MouseRegistered' /\ KeyboardRegistered'
      ]_vars

\* C4: uninstall returns success in every state, unregisters every installed
\* hook, makes no OS unhook call when nothing is installed, and so no handle
\* is ever passed to UnhookWindowsHookEx twice.
C4_UninstallIdempotent ==
    [][Uninstall =>
        /\ last_call'.result.ok
        /\ os'.hooks = {}
        /\ os.hooks = {} => os'.unhooked = os.unhooked
        /\ NoDuplicates(os'.unhooked)
      ]_vars

\* st2 is st with exactly one event appended
AppendsOne(st, st2) ==
    /\ st2.is_recording = st.is_recording
    /\ st2.start_instant = st.start_instant
    /\ Len(st2.events) = Len(st.events) + 1
    /\ IsPrefix(st.events, st2.events)

LockedState(t) == states[Unwrap(RECORDING_STATE)]

\* C5 as claimed: a callback that holds the lock and carries a recognised
\* notification code appends exactly one event if is_recording is true and
\* leaves the RecordingState unchanged if it is false.
C5_RecognisedAppendsOne ==
    /\ pc["mouse"] = "locked" =>
          \A inp \in AllMouseInputs : inp.w_param \in MouseCodes =>
              LET r == mouse_hook_locked(LockedState("mouse"), inp, now)
              IN  IF LockedState("mouse").is_recording
                  THEN AppendsOne(LockedState("mouse"), r.state)
                  ELSE r.state = LockedState("mouse")
    /\ pc["keyboard"] = "locked" =>
          \A inp \in AllKeyboardInputs : inp.w_param \in KeyboardCodes =>
              LET r == keyboard_hook_locked(LockedState("keyboard"), inp, now)
              IN  IF LockedState("keyboard").is_recording
                  THEN AppendsOne(LockedState("keyboard"), r.state)
                  ELSE r.state = LockedState("keyboard")

\* C5 (amended): a callback that holds the lock and carries a recognised
\* notification code (and, for the keyboard callback, a non-null payload)
\* appends exactly one event if is_recording is true, and leaves is_recording,
\* start_instant and events unchanged if it is false; a keyboard callback
\* with a null payload appends nothing.
C5_RecognisedWithPayloadAppendsOne ==
    /\ pc["mouse"] = "locked" =>
          \A inp \in AllMouseInputs : inp.w_param \in MouseCodes =>
              LET r == mouse_hook_locked(LockedState("mouse"), inp, now)
              IN  IF LockedState("mouse").is_recording
                  THEN AppendsOne(LockedState("mouse"), r.state)
                  ELSE r.state = LockedState("mouse")
    /\ pc["keyboard"] = "locked" =>
          \A inp \in AllKeyboardInputs : inp.w_param \in KeyboardCodes =>
              LET r == keyboard_hook_locked(LockedState("keyboard"), inp, now)
              IN  IF LockedState("keyboard").is_recording /\ inp.l_param # 0
                  THEN AppendsOne(LockedState("keyboard"), r.state)
                  ELSE r.state = LockedState("keyboard")

\* both callbacks have appended to a session in progress, and the keyboard
\* callback holds the lock again
C5_Witness ==
    /\ pc["keyboard"] = "locked"
    /\ LockedState("keyboard").is_recording
    /\ \E i, j \in 1..Len(LockedState("keyboard").events) :
          /\ LockedState("keyboard").events[i].event_type.tag = "KeyDown"
          /\ LockedState("keyboard").events[j].event_type.tag = "MouseMove"

\* C6: in every reachable state the time_offset_ms of events are
\* non-decreasing in append order, and so are those of the sequence a stop()
\* would return, under every interleaving of the callbacks with start/stop.
C6_TimeOffsetsNonDecreasing ==
    \A s \in StateIds :
        /\ NonDecreasing(states[s].events)
        /\ NonDecreasing(stop(states[s]).ret)

\* a mouse and a keyboard event recorded at different clock readings
C6_Witness ==
    \E s \in StateIds :
        /\ Len(states[s].events) = 2
        /\ states[s].events[1].time_offset_ms < states[s].events[2].time_offset_ms
        /\ states[s].events[1].event_type.tag = "KeyDown"
        /\ states[s].events[2].event_type.tag = "MouseDown"

\* C7: when start() acts on an Idle state, a stop() that follows with no
\* append in between returns the empty sequence, whatever the previous
\* session left in events.
C7_StartThenStopEmpty ==
    [][(StartRecording /\ ~states[AppState].is_recording) =>
          /\ states'[AppState].is_recording
          /\ stop(states'[AppState]).ret = <<>>
      ]_vars

\* an Idle state that still holds the previous session's events, from which
\* start() then stop() returns nothing
C7_Witness ==
    /\ ~states[AppState].is_recording
    /\ Len(states[AppState].events) = MaxEvents
    /\ lock[AppState] = "free"
    /\ stop(start(states[AppState], now)).ret = <<>>

\* C8: events is append-only while is_recording is true, and while
\* is_recording is false it changes only by start() clearing it: a callback
\* that gets the lock after stop() appends nothing.
C8_AppendOnly ==
    [][\A s \in StateIds :
        /\ states[s].is_recording =>
              \/ states'[s].events = states[s].events
              \/ /\ Len(states'[s].events) = Len(states[s].events) + 1
                 /\ IsPrefix(states[s].events, states'[s].events)
        /\ ~states[s].is_recording =>
              \/ states'[s].events = states[s].events
              \/ states'[s].is_recording /\ states'[s].events = <<>>
      ]_vars

\* a callback gets the lock after stop(), the stopped session's events being
\* as stop() left them
C8_Witness ==
    /\ pc["mouse"] = "locked"
    /\ IsSome(RECORDING_STATE)
    /\ ~states[Unwrap(RECORDING_STATE)].is_recording
    /\ states[Unwrap(RECORDING_STATE)].events # <<>>

\* C9: start() while is_recording is already true is a no-op: the events
\* captured so far and start_instant are kept.
C9_StartWhileRecordingNoOp ==
    [][(StartRecording /\ states[AppState].is_recording) =>
          states'[AppState] = states[AppState]
      ]_vars

\* a session in progress that has events, later than its start_instant,
\* on which start() changes nothing
C9_Witness ==
    /\ states[AppState].is_recording
    /\ states[AppState].events # <<>>
    /\ Unwrap(states[AppState].start_instant) < now
    /\ lock[AppState] = "free"
    /\ start(states[AppState], now) = states[AppState]

\* a step of a load_recording call
LoadStep == replay_ret'.op = "load_recording"

\* C10: a failing load_recording returns an error and leaves current_events,
\* current_index, is_playing and speed_multiplier as they were.
C10_FailedLoadChangesNothing ==
    [][(LoadStep /\ ~load_result'.ok) =>
          UNCHANGED <<current_events, current_index, is_playing, speed_multiplier>>
      ]_vars

\* a load failed on an undecodable element while a stream was loaded, playing
\* and part-consumed
C10_Witness ==
    /\ load_result = Err("Failed to parse events")
    /\ Len(current_events) = MaxDocLen
    /\ current_index > 0
    /\ is_playing


Min(a, b) == IF a <= b THEN a ELSE b

\* the elements of a file's "events" array
FileItems(file) == Unwrap(as_array(JsonIndex(Unwrap(file.json), "events")))

\* C11: a load_recording call that succeeds replaces current_events with the
\* document's events, one per element and in the document's order, sets
\* current_index to 0 and leaves is_playing and speed_multiplier as they were,
\* whatever is_playing was.
C11_LoadReplacesEvents ==
    /\ [](\A file \in Files :
              LET r == load_recording(ReplayState, file)
              IN  r.result.ok =>
                      /\ Len(r.state.current_events) = Len(FileItems(file))
                      /\ \A i \in 1..Len(FileItems(file)) :
                             r.state.current_events[i] = from_value(FileItems(file)[i]).val
                      /\ r.state.current_index = 0
                      /\ r.state.is_playing = is_playing
                      /\ r.state.speed_multiplier = speed_multiplier)
    /\ [][(LoadStep /\ load_result'.ok) =>
              /\ current_index' = 0
              /\ UNCHANGED <<is_playing, speed_multiplier>>
         ]_vars

\* a full-length document was loaded while playback was on
C11_Witness ==
    /\ replay_ret.op = "load_recording"
    /\ replay_ret.val = Ok
    /\ is_playing
    /\ speed_multiplier = 20
    /\ Len(current_events) = MaxDocLen
    /\ current_events[1] # current_events[2]
    /\ current_index = 0

\* C12: the get_next_event calls made since the cursor was at 0 returned the
\* loaded events in their order, each once, and None from call N + 1 on; the
\* cursor counts the calls that returned an event.
C12_NextEventsInOrder ==
    LET N == Len(current_events)
    IN  /\ \A i \in 1..Len(pulled) :
               pulled[i] = IF i <= N THEN Some(current_events[i]) ELSE None
        /\ current_index = Min(Len(pulled), N)

\* N + 1 calls on N distinct events: the last one returned None
C12_Witness ==
    /\ Len(current_events) = MaxDocLen
    /\ current_events[1] # current_events[2]
    /\ Len(pulled) = Len(current_events) + 1
    /\ replay_ret.op = "get_next_event"
    /\ replay_ret.val = None

\* C13: get_progress is 100 * current_index / len for a non-empty stream and 0
\* for an empty one: 0 before any get_next_event call, 100 * k / N after k
\* calls, 100 after N; it is always between 0 and 100; a get_progress call
\* returns that value and changes nothing of the ReplayState.
C13_Progress ==
    /\ [](LET p == get_progress(ReplayState)
              N == Len(current_events)
              k == Min(Len(pulled), N)
          IN  /\ N = 0 => p = [num |-> 0, den |-> 1]
              /\ N > 0 => /\ p.num * N = 100 * current_index * p.den
                          /\ p.num * N = 100 * k * p.den
              /\ (N > 0 /\ k = N) => p = [num |-> 100, den |-> 1]
              /\ p.den > 0 /\ 0 <= p.num /\ p.num <= 100 * p.den)
    /\ [][GetProgress =>
             /\ replay_ret'.val = get_progress(ReplayState)
             /\ UNCHANGED <<is_playing, current_events, current_index,
                            speed_multiplier>>
         ]_vars

\* get_progress returned 50 on a part-consumed stream
C13_Witness ==
    /\ replay_ret.op = "get_progress"
    /\ replay_ret.val = [num |-> 50, den |-> 1]
    /\ current_index = 1
    /\ Len(current_events) = 2

\* C14: start(speed) sets is_playing, sets current_index to 0 and stores speed;
\* stop() clears is_playing, sets current_index to 0 and keeps
\* speed_multiplier; neither changes current_events.
C14_StartStop ==
    /\ [][\A speed \in Speeds :
             StartWith(speed) =>
                 /\ is_playing'
                 /\ current_index' = 0
                 /\ speed_multiplier' = speed
                 /\ UNCHANGED current_events
         ]_vars
    /\ [][ReplayStop =>
             /\ ~is_playing'
             /\ current_index' = 0
             /\ UNCHANGED <<speed_multiplier, current_events>>
         ]_vars

\* stop() after start(2.0) on a loaded stream
C14_Witness ==
    /\ replay_ret.op = "stop"
    /\ ~is_playing
    /\ current_index = 0
    /\ speed_multiplier = 20
    /\ Len(current_events) = MaxDocLen

\* C15: speed_multiplier is positive in every reachable ReplayState.
C15_SpeedPositive == speed_multiplier > 0


\* what execute_event returned, and the event it was given
Executed == IsSome(exec_out)
ExecResult == Unwrap(exec_out).result
ExecCalls == Unwrap(exec_out).calls
ExecType == Unwrap(exec_event).event_type

\* C16: execute_event on a KeyDown or KeyUp whose vk_code is above 255 returns
\* the invalid-key-code error and makes no OS call; for a vk_code of 0 to 255
\* it makes exactly one OS call, a keyboard SendInput carrying that vk_code.
C16_KeyCodeValidated ==
    (Executed /\ ExecType.tag \in {"KeyDown", "KeyUp"}) =>
        IF ExecType.vk_code > 255
        THEN /\ ExecResult = Err("Invalid virtual key code")
             /\ ExecCalls = <<>>
        ELSE /\ Len(ExecCalls) = 1
             /\ ExecCalls[1].api = "SendInput"
             /\ ExecCalls[1].type = "INPUT_KEYBOARD"
             /\ ExecCalls[1].wVk = ExecType.vk_code

\* KeyDown with vk_code 300 was rejected without an OS call
C16_Witness ==
    /\ Executed
    /\ ExecType = KeyDown(300)
    /\ exec_out = Some([result |-> Err("Invalid virtual key code"), calls |-> <<>>])

\* C17: execute_event on a MouseMove with both coordinates present returns
\* the invalid-coordinates error and makes no OS call exactly when x or y is
\* outside -32768..32767; otherwise it makes exactly one OS call, SetCursorPos
\* at (x, y).
C17_CoordinatesValidated ==
    (Executed /\ ExecType.tag = "MouseMove"
              /\ IsSome(Unwrap(exec_event).x) /\ IsSome(Unwrap(exec_event).y)) =>
        LET x == Unwrap(Unwrap(exec_event).x)
            y == Unwrap(Unwrap(exec_event).y)
            outside == x \notin -32768..32767 \/ y \notin -32768..32767
        IN  /\ outside <=> (ExecResult = Err("Invalid mouse coordinates") /\ ExecCalls = <<>>)
            /\ ~outside => /\ Len(ExecCalls) = 1
                           /\ ExecCalls[1].api = "SetCursorPos"
                           /\ ExecCalls[1].x = x
                           /\ ExecCalls[1].y = y

\* MouseMove to (40000, 0) was rejected without an OS call
C17_Witness ==
    /\ Executed
    /\ ExecType = MouseMove
    /\ Unwrap(exec_event).x = Some(40000)
    /\ Unwrap(exec_event).y = Some(0)
    /\ exec_out = Some([result |-> Err("Invalid mouse coordinates"), calls |-> <<>>])

\* C18: execute_event on a MouseMove whose x or y is absent fails with the
\* invalid-coordinates error.
C18_AbsentCoordinateRejected ==
    (Executed /\ ExecType.tag = "MouseMove"
              /\ (Unwrap(exec_event).x = None \/ Unwrap(exec_event).y = None)) =>
        ExecResult = Err("Invalid mouse coordinates")

ValidationErrors == {Err("Invalid mouse coordinates"), Err("Invalid virtual key code")}

\* C19: execute_event returns success only if it made exactly one OS call and
\* the OS accepted it, returns a validation error only with no OS call made,
\* and returns a synthesis error exactly when it made its one OS call and the
\* OS rejected it.
C19_NoSilentDrop ==
    Executed =>
        LET synthesis == ~ExecResult.ok /\ ExecResult \notin ValidationErrors
        IN  /\ Len(ExecCalls) <= 1
            /\ ExecResult.ok => (Len(ExecCalls) = 1 /\ ExecCalls[1].ret # 0)
            /\ ExecResult \in ValidationErrors => ExecCalls = <<>>
            /\ synthesis <=> (Len(ExecCalls) = 1 /\ ExecCalls[1].ret = 0)

\* the injection flag Windows pairs with a button notification
NativeButtonFlag(w_param) ==
    CASE w_param = WM_LBUTTONDOWN -> MOUSEEVENTF_LEFTDOWN
      [] w_param = WM_LBUTTONUP -> MOUSEEVENTF_LEFTUP
      [] w_param = WM_RBUTTONDOWN -> MOUSEEVENTF_RIGHTDOWN
      [] w_param = WM_RBUTTONUP -> MOUSEEVENTF_RIGHTUP
      [] w_param = WM_MBUTTONDOWN -> MOUSEEVENTF_MIDDLEDOWN
      [] w_param = WM_MBUTTONUP -> MOUSEEVENTF_MIDDLEUP

ButtonCodes == {WM_LBUTTONDOWN, WM_LBUTTONUP, WM_RBUTTONDOWN, WM_RBUTTONUP,
                WM_MBUTTONDOWN, WM_MBUTTONUP}

\* C20: executing the event the mouse callback records for a button
\* notification injects one mouse input whose flag is the native one for the
\* same button and direction; executing the event the keyboard callback
\* records for a key down / key up injects one keyboard input with the same
\* vk_code, with the key-up flag for a key up and no flag for a key down.
C20_CaptureThenExecute ==
    /\ (Executed /\ exec_src.kind = "mouse" /\ exec_src.inp.w_param \in ButtonCodes) =>
           /\ Len(ExecCalls) = 1
           /\ ExecCalls[1].api = "SendInput"
           /\ ExecCalls[1].type = "INPUT_MOUSE"
           /\ ExecCalls[1].dwFlags = NativeButtonFlag(exec_src.inp.w_param)
    /\ (Executed /\ exec_src.kind = "keyboard") =>
           /\ Len(ExecCalls) = 1
           /\ ExecCalls[1].api = "SendInput"
           /\ ExecCalls[1].type = "INPUT_KEYBOARD"
           /\ ExecCalls[1].wVk = exec_src.inp.vkCode
           /\ ExecCalls[1].dwFlags =
                  IF exec_src.inp.w_param = WM_KEYUP THEN KEYEVENTF_KEYUP ELSE 0

\* a middle-button release was captured and its event injected
C20_Witness ==
    /\ Executed
    /\ exec_src.kind = "mouse"
    /\ exec_src.inp.w_param = WM_MBUTTONUP
    /\ exec_event # None
    /\ ExecResult = Ok
    /\ ExecCalls[1].dwFlags = MOUSEEVENTF_MIDDLEUP


\* the 16-bit two's-complement encoding of d
TwosComplement16(d) == IF d < 0 THEN d + 65536 ELSE d

\* C21: every MouseWheel delta the mouse callback records is in
\* -32768..32767, and for every delta in that range execute_event makes one
\* wheel SendInput whose mouseData has the two's-complement encoding of delta
\* in its high 16 bits and zero in its low 16 bits, which is
\* (delta mod 2^32) * 2^16 mod 2^32.
C21_WheelDeltaEncoding ==
    /\ (exec_src.kind = "mouse" /\ IsSome(exec_event) /\ ExecType.tag = "MouseWheel") =>
           ExecType.delta \in -32768..32767
    /\ (Executed /\ ExecType.tag = "MouseWheel" /\ ExecType.delta \in -32768..32767) =>
           /\ Len(ExecCalls) = 1
           /\ ExecCalls[1].api = "SendInput"
           /\ ExecCalls[1].type = "INPUT_MOUSE"
           /\ ExecCalls[1].dwFlags = MOUSEEVENTF_WHEEL
           /\ ExecCalls[1].mouseData = [hi |-> TwosComplement16(ExecType.delta), lo |-> 0]

\* a captured wheel notification of delta -120 was injected as 0xFF88 0000
C21_Witness ==
    /\ Executed
    /\ exec_src.kind = "mouse"
    /\ ExecType = MouseWheel(-120)
    /\ ExecCalls[1].mouseData = [hi |-> 65416, lo |-> 0]


\* C26: current_index is at most the length of current_events in every
\* reachable ReplayState, and a successful load leaves the cursor within the
\* stream it stored, also when that stream is shorter than the one replaced.
C26_CursorWithinStream ==
    /\ [](current_index <= Len(current_events))
    /\ [][(LoadStep /\ load_result'.ok /\ Len(current_events') < Len(current_events)) =>
             current_index' <= Len(current_events')
         ]_vars

\* a load was attempted, and failed, with the cursor at the end of a full stream
C26_Witness ==
    /\ replay_ret.op = "load_recording"
    /\ ~load_result.ok
    /\ Len(current_events) = MaxDocLen
    /\ current_index = Len(current_events)

\* C27: a get_next_event call leaves is_playing, speed_multiplier and
\* current_events as they were and returns the event at the cursor whatever
\* is_playing is; on an exhausted stream it returns None and changes nothing
\* of the ReplayState, is_playing included.
C27_NextEventFrame ==
    [][GetNextEvent =>
          /\ UNCHANGED <<is_playing, speed_multiplier, current_events>>
          /\ IF current_index < Len(current_events)
             THEN replay_ret'.val = Some(current_events[current_index + 1])
             ELSE /\ replay_ret'.val = None
                  /\ UNCHANGED current_index
      ]_vars

\* playback is still on after MaxExtraCalls calls past the end of the stream
C27_Witness ==
    /\ is_playing
    /\ replay_ret = [op |-> "get_next_event", val |-> None]
    /\ Len(current_events) = MaxDocLen
    /\ Len(pulled) = Len(current_events) + MaxExtraCalls


\* C23: missing payload data does not fail a callback.  A mouse notification
\* with a recognised code is recorded with the payload's position when the
\* payload is present, else with the queried cursor position, else with x and
\* y absent; a keyboard notification without payload records nothing.  Every
\* recorded event has x and y both present or both absent, and every event
\* the keyboard callback records has both absent.
C23_PayloadDegrades ==
    /\ (exec_src.kind = "mouse" /\ exec_src.inp.w_param \in MouseCodes) =>
           LET inp == exec_src.inp
               r == mouse_hook_locked(CaptureProbe, inp, 0)
               pos == IF inp.l_param # 0 THEN Some(inp.pt) ELSE inp.cursor
           IN  /\ ~r.panic
               /\ Len(r.state.events) = 1
               /\ IsSome(exec_event) =>
                      /\ Unwrap(exec_event) = r.state.events[1]
                      /\ IF IsSome(pos)
                         THEN /\ Unwrap(exec_event).x = Some(Unwrap(pos)[1])
                              /\ Unwrap(exec_event).y = Some(Unwrap(pos)[2])
                         ELSE /\ Unwrap(exec_event).x = None
                              /\ Unwrap(exec_event).y = None
    /\ exec_src.kind = "keyboard" =>
           LET r == keyboard_hook_locked(CaptureProbe, exec_src.inp, 0)
           IN  /\ ~r.panic
               /\ exec_src.inp.l_param = 0 => (r.state.events = <<>> /\ exec_event = None)
               /\ IsSome(exec_event) => (Unwrap(exec_event).x = None /\ Unwrap(exec_event).y = None)
    /\ (exec_src.kind # "none" /\ IsSome(exec_event)) =>
           (Unwrap(exec_event).x = None <=> Unwrap(exec_event).y = None)

\* a button press with no payload and a failed cursor query was recorded
\* without coordinates
C23_Witness ==
    /\ exec_src.kind = "mouse"
    /\ exec_src.inp.w_param = WM_LBUTTONDOWN
    /\ exec_src.inp.l_param = 0
    /\ exec_src.inp.cursor = None
    /\ IsSome(exec_event)
    /\ Unwrap(exec_event).x = None
    /\ Unwrap(exec_event).y = None


\* what the locked block r of an invocation leaves for the rest of it: the
\* event is passed on once, inside the block on the early return and by the
\* closing CallNextHookEx otherwise
PassesOn(r) ==
    /\ ~r.panic
    /\ Count(r.held, "CallNextHookEx") = (IF r.early THEN 1 ELSE 0)

\* C22: a callback that holds the lock while recording and carries a
\* notification code it does not recognise appends nothing, leaves the
\* RecordingState as it is, does not fail and passes the event on.
C22_UnmatchedIgnored ==
    /\ pc["mouse"] = "locked" =>
          \A i \in AllMouseInputs : i.w_param \notin MouseCodes =>
              LET r == mouse_hook_locked(LockedState("mouse"), i, now)
              IN  r.state = LockedState("mouse") /\ PassesOn(r)
    /\ pc["keyboard"] = "locked" =>
          \A i \in AllKeyboardInputs : i.w_param \notin KeyboardCodes =>
              LET r == keyboard_hook_locked(LockedState("keyboard"), i, now)
              IN  r.state = LockedState("keyboard") /\ PassesOn(r)

\* the mouse callback holds the lock on a session in progress that has
\* events
C22_Witness ==
    /\ pc["mouse"] = "locked"
    /\ lock[Unwrap(RECORDING_STATE)] = "mouse"
    /\ LockedState("mouse").is_recording
    /\ Len(LockedState("mouse").events) = 1


\* C24: no callback ever panics.  A callback that finds the lock poisoned
\* goes on to CallNextHookEx without touching the RecordingState or the
\* lock; is_recording implies start_instant is set, in every RecordingState
\* of every reachable state, so the unwrap of start_instant in the locked
\* block never fails, whatever notification arrives.
C24_CallbackNeverCrashes ==
    /\ [](/\ \A t \in Threads : pc[t] # "panicked"
          /\ \A s \in StateIds : states[s].is_recording => IsSome(states[s].start_instant)
          /\ pc["mouse"] = "locked" =>
                \A i \in AllMouseInputs :
                    ~mouse_hook_locked(LockedState("mouse"), i, now).panic
          /\ pc["keyboard"] = "locked" =>
                \A i \in AllKeyboardInputs :
                    ~keyboard_hook_locked(LockedState("keyboard"), i, now).panic)
    /\ [][\A t \in Threads :
             (/\ pc[t] = "lock"
              /\ lock[Unwrap(RECORDING_STATE)] = "poisoned"
              /\ pc'[t] # pc[t]) =>
                 /\ pc'[t] = "next"
                 /\ UNCHANGED <<states, lock>>
         ]_vars

\* a callback found the lock of a session in progress poisoned and is about
\* to pass the event on
C24_Witness ==
    /\ IsSome(RECORDING_STATE)
    /\ lock[Unwrap(RECORDING_STATE)] = "poisoned"
    /\ states[Unwrap(RECORDING_STATE)].is_recording
    /\ pc["keyboard"] = "next"
    /\ pc["mouse"] = "return"


\* C25: while a callback holds the lock it reads no clock, decodes no
\* payload and calls nothing of the OS.
C25_NothingUnderLock ==
    /\ pc["mouse"] = "locked" =>
          \A i \in AllMouseInputs :
              mouse_hook_locked(LockedState("mouse"), i, now).held = <<>>
    /\ pc["keyboard"] = "locked" =>
          \A i \in AllKeyboardInputs :
              keyboard_hook_locked(LockedState("keyboard"), i, now).held = <<>>


\* C29: an invocation has called CallNextHookEx exactly once when it returns
\* and not before its last step, whichever path it took, and it returns only
\* after that call.  An invocation that goes straight from entry to
\* CallNextHookEx (a negative notification code) changes neither a
\* RecordingState nor a lock, and registers and stores nothing.
C29_PassedOnExactlyOnce ==
    /\ [](\A t \in Threads :
             /\ pc[t] = "return" => passed[t] = 1
             /\ pc[t] \in {"idle", "lock", "locked", "next"} => passed[t] = 0)
    /\ [][\A t \in Threads :
             /\ (pc[t] # "idle" /\ pc'[t] = "idle") => pc[t] = "return"
             /\ (pc[t] \in {"idle", "next"} /\ pc'[t] # pc[t]) =>
                    UNCHANGED <<states, lock, RECORDING_STATE, MOUSE_HOOK,
                                KEYBOARD_HOOK, os>>
         ]_vars

\* both callbacks are about to return, each having passed its event on once,
\* with an event of each recorded
C29_Witness ==
    /\ pc["mouse"] = "return" /\ passed["mouse"] = 1
    /\ pc["keyboard"] = "return" /\ passed["keyboard"] = 1
    /\ \E i, j \in 1..Len(states[Unwrap(RECORDING_STATE)].events) :
          /\ states[Unwrap(RECORDING_STATE)].events[i].event_type.tag = "KeyDown"
          /\ states[Unwrap(RECORDING_STATE)].events[j].event_type.tag = "MouseMove"


\* a step of a callback invocation in progress
CallbackStep ==
    \/ \E t \in Threads : hook_proc_lock(t)
    \/ mouse_hook_proc_locked
    \/ keyboard_hook_proc_locked
    \/ \E t \in Threads : hook_proc_next(t)
    \/ \E t \in Threads : hook_proc_return(t)

PastRegistration ==
    {c \in Installers : installs[c].pc \in {"hook_mouse", "set_mouse", "hook_keyboard",
                                            "set_keyboard"}}

\* C28: under any interleaving of install_hooks calls, a call gets past
\* RECORDING_STATE.set only while no state is registered, and at most one call
\* ever does (every such call goes on to ask the OS for a mouse hook, and at
\* most one call has or is about to); the OS is asked for at most one mouse
\* hook and one keyboard hook; RECORDING_STATE, MOUSE_HOOK and KEYBOARD_HOOK
\* never change once set; and no call ends in "Mouse hook already installed"
\* or "Keyboard hook already installed".
C28_ConcurrentInstall ==
    /\ [](/\ Cardinality(PastRegistration) <= 1
          /\ os.attempts["WH_MOUSE_LL"]
                + Cardinality({c \in Installers : installs[c].pc = "hook_mouse"}) <= 1
          /\ os.attempts["WH_KEYBOARD_LL"] <= 1
          /\ os.next <= 3
          /\ \A c \in Installers :
                installs[c].result.err \notin {"Mouse hook already installed",
                                               "Keyboard hook already installed"})
    /\ [][/\ IsSome(RECORDING_STATE) => RECORDING_STATE' = RECORDING_STATE
          /\ IsSome(MOUSE_HOOK) => MOUSE_HOOK' = MOUSE_HOOK
          /\ IsSome(KEYBOARD_HOOK) => KEYBOARD_HOOK' = KEYBOARD_HOOK
          /\ \A c \in Installers :
                (installs[c].pc = "set_state" /\ installs'[c].pc = "hook_mouse") =>
                    ~IsSome(RECORDING_STATE)
         ]_vars

\* two calls raced: one registered its state and both hooks and is about to
\* store the keyboard handle, the other, with a different state, has been
\* rejected at RECORDING_STATE.set and has not returned yet
C28_Witness ==
    \E c, d \in Installers :
        /\ installs[c].pc = "set_keyboard"
        /\ RECORDING_STATE = Some(installs[c].state)
        /\ MOUSE_HOOK = Some(installs[c].mouse_hook)
        /\ Registered("WH_MOUSE_LL") /\ Registered("WH_KEYBOARD_LL")
        /\ installs[d].pc = "done"
        /\ installs[d].state # installs[c].state
        /\ installs[d].result = Err("Failed to set recording state")

====
